---- MODULE Spec2Model ----
(***************************************************************************)
(* Model of functions/main.py: the Flask relay between a browser client    *)
(* and the Strava OAuth / API endpoints.                                   *)
(*                                                                         *)
(* One inbound request is followed from its arrival (pc = "idle") to its   *)
(* answer (pc = "done").  The configuration is read once at import time    *)
(* and never changes.  The upstream HTTP server is the environment: what   *)
(* it answers is drawn from small sets.                                    *)
(***************************************************************************)
EXTENDS Integers, Sequences, FiniteSets, TLC

VARIABLES
    STRAVA_CLIENT_ID,       \* main.py:39, None | "" | a client id
    STRAVA_CLIENT_SECRET,   \* main.py:40
    EXPECTED_REDIRECT_URI,  \* main.py:58
    pc,                     \* position of the request being handled
    op,                     \* which handler (or direct call) is running
    req,                    \* the inbound request
    client,                 \* what the upstream answers to the token POSTs
    payload,                \* argument of make_token_request_with_retry
    max_retries,            \* argument of make_token_request_with_retry
    retries,                \* local of make_token_request_with_retry
    waits,                  \* number of time.sleep(1) calls made
    elapsed,                \* time spent in POST attempts and sleeps
    calls,                  \* upstream HTTP calls issued for this request
    response,               \* what make_token_request_with_retry returned, or
                            \* what requests.get came back with
    exc,                    \* exception raised by make_token_request_with_retry
    log,                    \* log records written while handling the request
    resp,                   \* the answer given to the caller
    escaped                 \* class of an exception that left the handler, or ""

config == <<STRAVA_CLIENT_ID, STRAVA_CLIENT_SECRET, EXPECTED_REDIRECT_URI>>

vars == <<STRAVA_CLIENT_ID, STRAVA_CLIENT_SECRET, EXPECTED_REDIRECT_URI, pc, op,
          req, client, payload, max_retries, retries, waits, elapsed, calls,
          response, exc, log, resp, escaped>>

-----------------------------------------------------------------------------
(* Bounds of the model *)

\* The upstream fails at most this many POSTs in a row before it answers.
MaxFail == 4

\* Largest max_retries with which make_token_request_with_retry is called
\* directly (RetrySpec).
MaxRetriesArg == 4

-----------------------------------------------------------------------------
(* Program constants *)

DEFAULT_MAX_RETRIES == 3

POST_TIMEOUT == 10

BACKOFF == 1

STRAVA_AUTHORIZATION_URL == "https://www.strava.com/oauth/authorize"

STRAVA_TOKEN_URL == "https://www.strava.com/api/v3/oauth/token"

STRAVA_ACTIVITIES_URL == "https://www.strava.com/api/v3/athlete/activities"

STRAVA_ATHLETE_ZONES_URL == "https://www.strava.com/api/v3/athlete/zones"

DEFAULT_REDIRECT_URI == "http://localhost:3000/exchange_token"

DEFAULT_SCOPES == "read,activity:read_all,profile:read_all"

REDACTED == "[REDACTED]"

-----------------------------------------------------------------------------
(* Python values *)

\* Python's None, kept apart from every string the model uses.
None == "<None>"

\* bool(v) for v a str or None.
Truthy(v) == v # None /\ v # ""

\* a or b
PyOr(a, b) == IF Truthy(a) THEN a ELSE b

\* A dict with string keys and string values is a function; {} is EmptyDict.
EmptyDict == [k \in {} |-> ""]

\* d.get(k, default)
Get(d, k, default) == IF k \in DOMAIN d THEN d[k] ELSE default

\* The values of a dict.
Values(d) == {d[k] : k \in DOMAIN d}

\* jsonify of a bool
JsonBool(b) == IF b THEN "true" ELSE "false"

\* str of a bool, as an f-string formats it
PyBool(b) == IF b THEN "True" ELSE "False"

\* json.dumps of a dict; the keys are rendered in one fixed order.
RECURSIVE DumpItems(_, _)
DumpItems(d, ks) ==
    IF ks = {} THEN ""
    ELSE LET k == CHOOSE a \in ks : TRUE
             rest == ks \ {k}
         IN "\"" \o k \o "\": \"" \o d[k] \o "\""
              \o (IF rest = {} THEN "" ELSE ", ") \o DumpItems(d, rest)

JsonDumps(d) == "{" \o DumpItems(d, DOMAIN d) \o "}"

\* s[:500]
First500(s) == IF Len(s) <= 500 THEN s ELSE SubSeq(s, 1, 500)

-----------------------------------------------------------------------------
(* The upstream: what one HTTP call can come back with *)

TokenBody == [access_token |-> "AT-1", refresh_token |-> "RT-1", expires_at |-> "123"]

MessageBody == [message |-> "Authorization Error"]

ErrorBody == [error |-> "invalid_grant"]

OtherBody == [errors |-> "code invalid"]

HtmlText == "<html>Bad Gateway</html>"

\* A received HTTP response: response.status_code, whether response.json()
\* parses, what it parses to (a JSON object), and response.text.
Response(status, isJson, data, text) ==
    [kind |-> "response", cls |-> "", msg |-> "", status |-> status,
     json |-> isJson, data |-> data, text |-> text]

\* An exception raised by requests.post / requests.get instead of a response.
Raise(cls) ==
    [kind |-> "raise", cls |-> cls, msg |-> cls \o ": request failed", status |-> 0,
     json |-> FALSE, data |-> EmptyDict, text |-> ""]

Statuses == {200, 201, 401, 500}

JsonBodies == {TokenBody, MessageBody, ErrorBody, OtherBody}

Responses ==
    {Response(s, TRUE, d, JsonDumps(d)) : s \in Statuses, d \in JsonBodies}
      \cup {Response(s, FALSE, EmptyDict, HtmlText) : s \in Statuses}

\* requests.ConnectionError and requests.Timeout
TransportClasses == {"ConnectionError", "Timeout"}

\* An exception of requests that is no transport fault.
OtherClasses == {"TooManyRedirects"}

\* The classes below requests.RequestException (requests >= 2.27, where the
\* JSONDecodeError raised by Response.json() is an InvalidJSONError).
RequestExceptionClasses ==
    TransportClasses \cup OtherClasses \cup {"HTTPError", "JSONDecodeError"}

\* Everything one call can come back with.
Outcomes == Responses \cup {Raise(c) : c \in TransportClasses \cup OtherClasses}

\* An upstream that fails the first failFirst POSTs with a transport fault and
\* answers `final` to the next one.
Clients ==
    [failFirst : 0..MaxFail, fault : TransportClasses,
     final : {o \in Outcomes : o.cls \notin TransportClasses}]

NoClient == [failFirst |-> 0, fault |-> "ConnectionError", final |-> Raise("TooManyRedirects")]

\* The answer to the POST made after n earlier ones.
ClientAnswer(c, n) == IF n < c.failFirst THEN Raise(c.fault) ELSE c.final

\* How long one POST can take: timeout=10 ends an attempt.
Durations == {1, POST_TIMEOUT}

-----------------------------------------------------------------------------
(* Log records and upstream calls *)

\* A log record: its level, its fixed text, and the literal values formatted
\* into it.
LogRec(level, msg, vals) == [level |-> level, msg |-> msg, vals |-> vals]

PostCall(data) ==
    [method |-> "POST", url |-> STRAVA_TOKEN_URL, data |-> data,
     headers |-> EmptyDict, params |-> EmptyDict]

GetCall(url, headers, params) ==
    [method |-> "GET", url |-> url, data |-> EmptyDict,
     headers |-> headers, params |-> params]

\* The answer of a handler: jsonify(body), status.
Answer(status, body) == [status |-> status, body |-> body]

ErrorAnswer(status, message) == Answer(status, [error |-> message])

NoAnswer == Answer(0, EmptyDict)

NoRequest == [json |-> "absent", body |-> EmptyDict, header |-> <<>>, args |-> EmptyDict]

\* No response and no exception: Python's None where a response is expected.
NoResponse ==
    [kind |-> "none", cls |-> "", msg |-> "", status |-> 0, json |-> FALSE,
     data |-> EmptyDict, text |-> ""]

-----------------------------------------------------------------------------
(* Configuration, main.py:39-58 *)

EnvValues == {None, "", "42"}

SecretEnvValues == {None, "", "s3cr3t"}

RedirectEnvValues == {None, "https://app.example/callback"}

\* os.getenv(name, default)
GetEnv(v, default) == IF v = None THEN default ELSE v

ConfigInit ==
    /\ STRAVA_CLIENT_ID \in {PyOr(f, e) : f \in EnvValues, e \in EnvValues}
    /\ STRAVA_CLIENT_SECRET \in {PyOr(f, e) : f \in SecretEnvValues, e \in SecretEnvValues}
    /\ EXPECTED_REDIRECT_URI \in
         {PyOr(f, GetEnv(e, DEFAULT_REDIRECT_URI)) :
            f \in RedirectEnvValues, e \in RedirectEnvValues}

\* The per-request state before a request arrives.
Fresh ==
    [pc |-> "idle", op |-> "", req |-> NoRequest, client |-> NoClient,
     payload |-> EmptyDict, max_retries |-> DEFAULT_MAX_RETRIES, retries |-> 0,
     waits |-> 0, elapsed |-> 0, calls |-> <<>>, response |-> NoResponse,
     exc |-> NoResponse, log |-> <<>>, resp |-> NoAnswer, escaped |-> ""]

RequestInit ==
    /\ pc = Fresh.pc
    /\ op = Fresh.op
    /\ req = Fresh.req
    /\ client = Fresh.client
    /\ payload = Fresh.payload
    /\ max_retries = Fresh.max_retries
    /\ retries = Fresh.retries
    /\ waits = Fresh.waits
    /\ elapsed = Fresh.elapsed
    /\ calls = Fresh.calls
    /\ response = Fresh.response
    /\ exc = Fresh.exc
    /\ log = Fresh.log
    /\ resp = Fresh.resp
    /\ escaped = Fresh.escaped

Init == ConfigInit /\ RequestInit

-----------------------------------------------------------------------------
(* make_token_request_with_retry, main.py:76-94 *)

\* while retries < max_retries
LoopCond(r, m) == r < m

\* Every exception retried.
IsAnyFault(o) == o.kind = "raise"

\* except (requests.ConnectionError, requests.Timeout)
IsTransportFault(o) == o.kind = "raise" /\ o.cls \in TransportClasses

\* A wait after the last attempt too.
AttemptsRemainInclusive(r, m) == r <= m

\* Giving up one attempt early.
AttemptsRemainEarly(r, m) == r + 1 < m

\* if retries < max_retries (after retries += 1)
AttemptsRemain(r, m) == r < m

\* One evaluation of the while condition and, when it holds, one POST with
\* what follows it up to the return, the raise or the start of the sleep.
RetryStep ==
    /\ pc = "loop"
    /\ IF LoopCond(retries, max_retries)
       THEN \E d \in Durations :
              LET o == ClientAnswer(client, Len(calls))
                  r == retries + 1
                  attempt == LogRec("info", "Attempting token exchange", {})
              IN /\ calls' = Append(calls, PostCall(payload))
                 /\ elapsed' = elapsed + d
                 /\ IF o.kind = "response"
                    THEN /\ pc' = "returned"
                         /\ response' = o
                         /\ log' = Append(log, attempt)
                         /\ UNCHANGED <<retries, exc>>
                    ELSE IF IsTransportFault(o)
                    THEN /\ retries' = r
                         /\ IF AttemptsRemain(r, max_retries)
                            THEN /\ pc' = "sleep"
                                 /\ log' = log \o <<attempt,
                                      LogRec("warning", "Network error during token exchange", {o.msg})>>
                                 /\ UNCHANGED exc
                            ELSE /\ pc' = "raised"
                                 /\ exc' = o
                                 /\ log' = log \o <<attempt,
                                      LogRec("error", "Failed to exchange token", {o.msg})>>
                         /\ UNCHANGED response
                    ELSE /\ pc' = "raised"
                         /\ exc' = o
                         /\ log' = log \o <<attempt,
                              LogRec("error", "Unexpected error during token exchange", {o.msg})>>
                         /\ UNCHANGED <<retries, response>>
       ELSE \* the loop ends without a return: the function returns None
            /\ pc' = "returned"
            /\ response' = NoResponse
            /\ UNCHANGED <<retries, exc, log, calls, elapsed>>
    /\ UNCHANGED <<config, op, req, client, payload, max_retries, waits, resp, escaped>>

\* time.sleep(1)
Sleep ==
    /\ pc = "sleep"
    /\ waits' = waits + 1
    /\ elapsed' = elapsed + BACKOFF
    /\ pc' = "loop"
    /\ UNCHANGED <<config, op, req, client, payload, max_retries, retries, calls,
                   response, exc, log, resp, escaped>>

-----------------------------------------------------------------------------
(* The inbound requests *)

\* request.json: the body is absent (no JSON content type), malformed, the
\* JSON value null, or a JSON object.
Request(json, body, header, args) ==
    [json |-> json, body |-> body, header |-> header, args |-> args]

ExchangeBodies == {EmptyDict, [code |-> ""], [code |-> "abc123"]}

RefreshBodies == {EmptyDict, [refresh_token |-> ""], [refresh_token |-> "RT-0"]}

BodyRequests(bodies) ==
    {Request("ok", b, <<>>, EmptyDict) : b \in bodies}
      \cup {Request(j, EmptyDict, <<>>, EmptyDict) : j \in {"absent", "malformed", "null"}}

\* The Authorization header, cut where 'Bearer ' occurs; <<>> is no header.
AuthHeaders == {<<>>, <<"Bearer ">>, <<"Bearer ", "AT-0">>, <<"AT-0">>}

QueryParams == {EmptyDict, [page |-> "2", per_page |-> "30"]}

AuthUrlArgs ==
    {EmptyDict, [redirect_uri |-> "https://spa.example/cb"], [scopes |-> "read"],
     [redirect_uri |-> "https://spa.example/cb", scopes |-> "read"]}

\* What evaluating request.json gives: an exception of werkzeug, None, or a
\* dict.  Without a JSON content type Flask >= 2.1 raises 415; an older Flask
\* gives None, which is the "null" case here.
RequestJson(r) ==
    IF r.json = "absent"
    THEN [cls |-> "UnsupportedMediaType", msg |-> "415 Unsupported Media Type",
          isNone |-> FALSE, data |-> EmptyDict]
    ELSE IF r.json = "malformed"
    THEN [cls |-> "BadRequest", msg |-> "400 Bad Request", isNone |-> FALSE,
          data |-> EmptyDict]
    ELSE [cls |-> "", msg |-> "", isNone |-> r.json = "null", data |-> r.body]

\* Every exception class of the model; all are below Exception.
ExceptionClasses ==
    RequestExceptionClasses \cup {"UnsupportedMediaType", "BadRequest", "AttributeError"}

-----------------------------------------------------------------------------
(* exchange_token, main.py:96-150, and refresh_token, main.py:204-254 *)

\* What differs between the two handlers.
ExchangeOp ==
    [name |-> "exchange_token", field |-> "code", grant |-> "authorization_code",
     missing |-> "No authorization code provided", what |-> "Token exchange",
     exn |-> "Exception during token exchange: ", logsRequest |-> TRUE,
     redacted |-> {"client_secret"}]

RefreshOp ==
    [name |-> "refresh_token", field |-> "refresh_token", grant |-> "refresh_token",
     missing |-> "No refresh token provided", what |-> "Token refresh",
     exn |-> "Exception during token refresh: ", logsRequest |-> FALSE,
     redacted |-> {"client_secret", "refresh_token"}]

TokenOps == {ExchangeOp, RefreshOp}

TokenOpNames == {h.name : h \in TokenOps}

Handler(name) == CHOOSE h \in TokenOps : h.name = name

\* {**d, k: v for k in ks}
SetKeys(d, ks, v) == [k \in DOMAIN d \cup ks |-> IF k \in ks THEN v ELSE d[k]]

\* {k: v if k not in ks else '[REDACTED]' for k, v in d.items()}
RedactKeys(d, ks) == [k \in DOMAIN d |-> IF k \in ks THEN REDACTED ELSE d[k]]

\* The keys the success log replaces, main.py:141 and main.py:246.
TokenKeys == {"access_token", "refresh_token"}

\* except Exception
TokenCatches(cls) == cls \in ExceptionClasses

\* if status_code != 200
IsErrorStatus(status) == status # 200

\* if not STRAVA_CLIENT_ID or not STRAVA_CLIENT_SECRET
CredentialsMissing(cid, secret) == ~Truthy(cid) \/ ~Truthy(secret)

\* The except clause of a token handler for an exception raised in its try.
TokenExcept(h, cls, msg, logs) ==
    IF TokenCatches(cls)
    THEN [proceed |-> FALSE, answer |-> ErrorAnswer(500, h.exn \o msg), escaped |-> "",
          payload |-> EmptyDict,
          logs |-> Append(logs, LogRec("exception", h.what \o " failed", {msg}))]
    ELSE [proceed |-> FALSE, answer |-> NoAnswer, escaped |-> cls,
          payload |-> EmptyDict, logs |-> logs]

TokenAnswer(answer, logs) ==
    [proceed |-> FALSE, answer |-> answer, escaped |-> "", payload |-> EmptyDict,
     logs |-> logs]

\* A token handler up to its call of make_token_request_with_retry.
TokenStart(h, r, cid, secret) ==
    LET j == RequestJson(r)
        received ==
            IF h.logsRequest
            THEN <<LogRec("info", "Token exchange request received",
                          IF j.isNone THEN {} ELSE Values(j.data))>>
            ELSE <<>>
        value == Get(j.data, h.field, None)
        body == [client_id |-> cid, client_secret |-> secret,
                 grant_type |-> h.grant] @@ (h.field :> value)
    IN IF j.cls # ""
       THEN TokenExcept(h, j.cls, j.msg, <<>>)
       ELSE IF j.isNone
       THEN TokenExcept(h, "AttributeError",
                        "'NoneType' object has no attribute 'get'", received)
       ELSE IF ~Truthy(value)
       THEN TokenAnswer(ErrorAnswer(400, h.missing),
                        IF h.logsRequest
                        THEN Append(received,
                               LogRec("warning", "No authorization code provided in request", {}))
                        ELSE received)
       ELSE IF CredentialsMissing(cid, secret)
       THEN TokenAnswer(
              ErrorAnswer(500, "Server configuration error: API credentials missing"),
              Append(received,
                LogRec("error", "Strava API credentials are not configured on the server.", {})))
       ELSE [proceed |-> TRUE, answer |-> NoAnswer, escaped |-> "", payload |-> body,
             logs |-> Append(received,
                        LogRec("info", h.what \o " payload",
                               Values(SetKeys(body, h.redacted, REDACTED))))]

\* error_data.get('message', error_data.get('error', json.dumps(error_data)))
ErrorDetail(data) == Get(data, "message", Get(data, "error", JsonDumps(data)))

\* A token handler from the return of make_token_request_with_retry on;
\* returned says whether the call returned (r) or raised (e).
TokenFinish(h, returned, r, e) ==
    IF ~returned
    THEN TokenExcept(h, e.cls, e.msg, <<>>)
    ELSE IF r.kind # "response"
    THEN TokenExcept(h, "AttributeError",
                     "'NoneType' object has no attribute 'status_code'", <<>>)
    ELSE LET status == LogRec("info", h.what \o " response status", {ToString(r.status)})
             error_msg == "Strava API error: " \o ToString(r.status)
         IN IF IsErrorStatus(r.status)
            THEN IF r.json
                 THEN TokenAnswer(
                        ErrorAnswer(r.status, error_msg \o " - " \o ErrorDetail(r.data)),
                        <<status, LogRec("error", h.what \o " error response",
                                         Values(r.data))>>)
                 ELSE TokenAnswer(
                        ErrorAnswer(r.status, error_msg \o " - " \o First500(r.text)),
                        <<status, LogRec("error", h.what \o " error body",
                                         {First500(r.text)})>>)
            ELSE IF ~r.json
            THEN TokenExcept(h, "JSONDecodeError", "Expecting value: line 1 column 1 (char 0)",
                             <<status>>)
            ELSE TokenAnswer(
                   Answer(200, r.data),
                   <<status, LogRec("info", h.what \o " successful",
                                    Values(RedactKeys(r.data, TokenKeys)))>>)

\* The request arrives and the handler runs to its first POST or to its answer.
TokenRequest(h, requests) ==
    /\ pc = "idle"
    /\ \E r \in requests, c \in Clients :
         LET s == TokenStart(h, r, STRAVA_CLIENT_ID, STRAVA_CLIENT_SECRET)
         IN /\ req' = r
            /\ op' = h.name
            /\ log' = s.logs
            /\ payload' = s.payload
            /\ resp' = s.answer
            /\ escaped' = s.escaped
            /\ client' = IF s.proceed THEN c ELSE NoClient
            /\ pc' = IF s.proceed THEN "loop" ELSE "done"
    /\ UNCHANGED <<config, max_retries, retries, waits, elapsed, calls, response, exc>>

exchange_token == TokenRequest(ExchangeOp, BodyRequests(ExchangeBodies))

refresh_token == TokenRequest(RefreshOp, BodyRequests(RefreshBodies))

\* make_token_request_with_retry is over and the handler runs to its answer.
TokenReturn ==
    /\ pc \in {"returned", "raised"}
    /\ op \in TokenOpNames
    /\ LET s == TokenFinish(Handler(op), pc = "returned", response, exc)
       IN /\ log' = log \o s.logs
          /\ resp' = s.answer
          /\ escaped' = s.escaped
    /\ pc' = "done"
    /\ UNCHANGED <<config, op, req, client, payload, max_retries, retries, waits,
                   elapsed, calls, response, exc>>

-----------------------------------------------------------------------------
(* get_activities, main.py:152-178, and get_athlete_zones, main.py:180-202 *)

RECURSIVE Join(_)
Join(pieces) == IF pieces = <<>> THEN "" ELSE Head(pieces) \o Join(Tail(pieces))

\* request.headers.get('Authorization', '').replace('Bearer ', '')
BearerToken(header) == Join(SelectSeq(header, LAMBDA piece : piece # "Bearer "))

\* except requests.HTTPError
FetchCatchesHTTPError(cls) == cls = "HTTPError"

\* except requests.RequestException
FetchCatches(cls) == cls \in RequestExceptionClasses

\* response.raise_for_status() raises HTTPError
RaisesForStatus(status) == 400 <= status /\ status < 600

\* The exception the try block ends with, or none (cls = ""), for what the GET
\* came back with: e.response is the response for an HTTPError alone.
FetchException(o) ==
    IF o.kind = "raise"
    THEN [cls |-> o.cls, msg |-> o.msg, response |-> NoResponse]
    ELSE IF RaisesForStatus(o.status)
    THEN [cls |-> "HTTPError", msg |-> ToString(o.status) \o " Error for url",
          response |-> o]
    ELSE IF ~o.json
    THEN [cls |-> "JSONDecodeError", msg |-> "Expecting value: line 1 column 1 (char 0)",
          response |-> NoResponse]
    ELSE [cls |-> "", msg |-> "", response |-> NoResponse]

\* if e.response: a Response is falsy when its status is an error
HasTruthyResponse(e) == e.response # NoResponse /\ e.response.status < 400

\* if e.response is not None
HasResponse(e) == e.response # NoResponse

\* The body of the handler after the GET came back with o.
FetchFinish(what, o) ==
    LET e == FetchException(o)
    IN IF e.cls = ""
       THEN [answer |-> Answer(200, o.data), escaped |-> "", logs |-> <<>>]
       ELSE IF ~FetchCatches(e.cls)
       THEN [answer |-> NoAnswer, escaped |-> e.cls, logs |-> <<>>]
       ELSE [answer |->
               IF HasResponse(e)
               THEN IF e.response.json
                    THEN Answer(e.response.status, e.response.data)
                    ELSE ErrorAnswer(e.response.status, e.msg)
               ELSE ErrorAnswer(500, e.msg),
             escaped |-> "",
             logs |-> <<LogRec("error", "Error fetching " \o what, {e.msg})>>]

\* A GET handler from the arrival of the request to its answer.
Fetch(name, what, url, params) ==
    /\ pc = "idle"
    /\ \E h \in AuthHeaders, q \in params, o \in Outcomes :
         LET access_token == BearerToken(h)
             f == FetchFinish(what, o)
         IN /\ req' = Request("absent", EmptyDict, h, q)
            /\ IF ~Truthy(access_token)
               THEN /\ resp' = ErrorAnswer(401, "No access token provided")
                    /\ UNCHANGED <<calls, response, log, escaped>>
               ELSE /\ calls' = Append(calls,
                          GetCall(url, [Authorization |-> "Bearer " \o access_token], q))
                    /\ response' = o
                    /\ resp' = f.answer
                    /\ escaped' = f.escaped
                    /\ log' = log \o f.logs
    /\ op' = name
    /\ pc' = "done"
    /\ UNCHANGED <<config, client, payload, max_retries, retries, waits, elapsed, exc>>

get_activities == Fetch("get_activities", "activities", STRAVA_ACTIVITIES_URL, QueryParams)

get_athlete_zones ==
    Fetch("get_athlete_zones", "athlete zones", STRAVA_ATHLETE_ZONES_URL, {EmptyDict})

-----------------------------------------------------------------------------
(* get_auth_url, main.py:61-74, and debug_info, main.py:256-264 *)

\* The f-string of main.py:73.
AuthUrl(client_id, redirect_uri, scopes) ==
    STRAVA_AUTHORIZATION_URL \o "?client_id=" \o client_id \o "&redirect_uri="
      \o redirect_uri \o "&response_type=code&scope=" \o scopes

\* The built-in default instead of the configured one.
RedirectArgBuiltin(args, default) == Get(args, "redirect_uri", DEFAULT_REDIRECT_URI)

\* request.args.get('redirect_uri', EXPECTED_REDIRECT_URI)
RedirectArg(args, default) == Get(args, "redirect_uri", default)

\* request.args.get('scopes', 'read,activity:read_all,profile:read_all')
ScopesArg(args) == Get(args, "scopes", DEFAULT_SCOPES)

\* if not STRAVA_CLIENT_ID
ClientIdMissing(cid) == ~Truthy(cid)

AuthUrlAnswer(cid, default, args) ==
    IF ClientIdMissing(cid)
    THEN ErrorAnswer(500, "Server configuration error: STRAVA_CLIENT_ID missing")
    ELSE Answer(200, [url |-> AuthUrl(cid, RedirectArg(args, default), ScopesArg(args))])

\* STRAVA_CLIENT_ID is not None, main.py:67 and main.py:260
ClientIdIsNotNone(cid) == cid # None

get_auth_url ==
    /\ pc = "idle"
    /\ \E a \in AuthUrlArgs :
         /\ req' = Request("absent", EmptyDict, <<>>, a)
         /\ resp' = AuthUrlAnswer(STRAVA_CLIENT_ID, EXPECTED_REDIRECT_URI, a)
         /\ log' = <<LogRec("info", "Generating auth URL",
                            {RedirectArg(a, EXPECTED_REDIRECT_URI),
                             PyBool(ClientIdIsNotNone(STRAVA_CLIENT_ID))})>>
                     \o (IF ClientIdMissing(STRAVA_CLIENT_ID)
                         THEN <<LogRec("error", "STRAVA_CLIENT_ID is not set.", {})>>
                         ELSE <<>>)
    /\ op' = "get_auth_url"
    /\ pc' = "done"
    /\ UNCHANGED <<config, client, payload, max_retries, retries, waits, elapsed,
                   calls, response, exc, escaped>>

\* time.strftime(...) and sys.version_info are the host's; one value of each.
DebugInfoAnswer(cid, redirect) ==
    Answer(200, [strava_client_id_set |-> JsonBool(ClientIdIsNotNone(cid)),
                 expected_redirect_uri |-> redirect,
                 server_time |-> "2026-01-01T00:00:00Z",
                 python_version |-> "3.12.0"])

debug_info ==
    /\ pc = "idle"
    /\ req' = NoRequest
    /\ resp' = DebugInfoAnswer(STRAVA_CLIENT_ID, EXPECTED_REDIRECT_URI)
    /\ op' = "debug_info"
    /\ pc' = "done"
    /\ UNCHANGED <<config, client, payload, max_retries, retries, waits, elapsed,
                   calls, response, exc, log, escaped>>

-----------------------------------------------------------------------------
(* The function called on its own, for every max_retries *)

Payloads == {[client_id |-> "42", client_secret |-> "s3cr3t", code |-> "abc123",
              grant_type |-> "authorization_code"]}

CallRetry ==
    /\ pc = "idle"
    /\ \E p \in Payloads, m \in 0..MaxRetriesArg, c \in Clients :
         /\ payload' = p
         /\ max_retries' = m
         /\ client' = c
    /\ op' = "make_token_request_with_retry"
    /\ pc' = "loop"
    /\ UNCHANGED <<config, req, retries, waits, elapsed, calls, response, exc, log,
                   resp, escaped>>

\* The direct call is over: the caller holds the response or the exception.
RetryReturn ==
    /\ pc \in {"returned", "raised"}
    /\ op = "make_token_request_with_retry"
    /\ pc' = "done"
    /\ UNCHANGED <<config, op, req, client, payload, max_retries, retries, waits,
                   elapsed, calls, response, exc, log, resp, escaped>>

\* The next request arrives: nothing of the last one is kept.
NextRequest ==
    /\ pc = "done"
    /\ pc' = Fresh.pc
    /\ op' = Fresh.op
    /\ req' = Fresh.req
    /\ client' = Fresh.client
    /\ payload' = Fresh.payload
    /\ max_retries' = Fresh.max_retries
    /\ retries' = Fresh.retries
    /\ waits' = Fresh.waits
    /\ elapsed' = Fresh.elapsed
    /\ calls' = Fresh.calls
    /\ response' = Fresh.response
    /\ exc' = Fresh.exc
    /\ log' = Fresh.log
    /\ resp' = Fresh.resp
    /\ escaped' = Fresh.escaped
    /\ UNCHANGED config

Next ==
    \/ get_auth_url
    \/ exchange_token
    \/ refresh_token
    \/ get_activities
    \/ get_athlete_zones
    \/ debug_info
    \/ RetryStep
    \/ Sleep
    \/ TokenReturn
    \/ NextRequest

Spec == Init /\ [][Next]_vars

\* A handler that has started keeps running: nothing cancels it.
FairSpec == Spec /\ WF_vars(RetryStep) /\ WF_vars(Sleep) /\ WF_vars(TokenReturn)

RetryNext == CallRetry \/ RetryStep \/ Sleep \/ RetryReturn \/ NextRequest

RetrySpec == Init /\ [][RetryNext]_vars

-----------------------------------------------------------------------------
(* The claims *)

Min(a, b) == IF a <= b THEN a ELSE b

FetchOpNames == {"get_activities", "get_athlete_zones"}

IsErrorBody(body) == DOMAIN body = {"error"}

\* The direct call of make_token_request_with_retry is over.
RetryOver == op = "make_token_request_with_retry" /\ pc \in {"returned", "raised"}

\* The call returned the response the upstream gave.
RetrySucceeded == pc = "returned" /\ response = client.final

\* C1: when the upstream fails the first N POSTs with a transport fault and
\* then returns a response, make_token_request_with_retry returns that
\* response iff N < max_retries, and has made min(N+1, max_retries) POSTs.
C1_RetryBound ==
    (RetryOver /\ client.final.kind = "response") =>
        /\ RetrySucceeded <=> client.failFirst < max_retries
        /\ Len(calls) = Min(client.failFirst + 1, max_retries)

C1_Witness ==
    /\ RetryOver
    /\ RetrySucceeded
    /\ client.failFirst = 2
    /\ max_retries = 3
    /\ Len(calls) = 3

\* What the most recent POST came back with.
LastAnswer == ClientAnswer(client, Len(calls) - 1)

\* C2: an attempt that yields an HTTP response of any status, or an exception
\* that is no transport fault, ends the loop: no further attempt, no backoff
\* wait; an upstream 401 on the first attempt gives one attempt and the token
\* handler answers an error body with status 401.
C2_OnlyTransportRetried ==
    (op \in TokenOpNames /\ Len(calls) > 0
       /\ (LastAnswer.kind = "response" \/ LastAnswer.cls \notin TransportClasses)) =>
        /\ pc \in {"returned", "raised", "done"}
        /\ Len(calls) = client.failFirst + 1
        /\ waits = client.failFirst
        /\ (pc = "done" /\ LastAnswer.kind = "response" /\ LastAnswer.status = 401) =>
              /\ resp.status = 401
              /\ IsErrorBody(resp.body)
              /\ (client.failFirst = 0 => Len(calls) = 1)

C2_Witness ==
    /\ op = "exchange_token"
    /\ pc = "done"
    /\ client.failFirst = 0
    /\ client.final.kind = "response"
    /\ client.final.status = 401
    /\ Len(calls) = 1
    /\ waits = 0
    /\ resp.status = 401

\* The request carries no value for the field the handler needs.
NoField(field) ==
    req.json \in {"absent", "null"} \/ (req.json = "ok" /\ Get(req.body, field, "") = "")

NoBearer == req.header \in {<<>>, <<"Bearer ">>}

\* C3: with a missing field the relay answers the documented status and makes
\* no upstream call: exchange-token without code (absent, empty, or no JSON
\* body) 400, refresh-token without refresh_token 400, activities and
\* athlete-zones without bearer token 401.
C3_MissingField ==
    pc = "done" =>
        /\ (op = "exchange_token" /\ NoField("code")) =>
              resp.status = 400 /\ calls = <<>>
        /\ (op = "refresh_token" /\ NoField("refresh_token")) =>
              resp.status = 400 /\ calls = <<>>
        /\ (op \in FetchOpNames /\ NoBearer) =>
              resp.status = 401 /\ calls = <<>>

Is2xx(status) == 200 <= status /\ status < 300

\* C4: for exchange-token and refresh-token with valid input and configured
\* credentials, an upstream 2xx is answered 200 with the upstream JSON body
\* unchanged, and an upstream non-2xx is answered {error: message} with the
\* upstream's status.  (Stated for upstream bodies that are JSON.)
C4_TokenPassThrough ==
    (pc = "done" /\ op \in TokenOpNames /\ response.kind = "response" /\ response.json) =>
        IF Is2xx(response.status)
        THEN resp = Answer(200, response.data)
        ELSE resp.status = response.status /\ IsErrorBody(resp.body)

OperationNames == TokenOpNames \cup FetchOpNames \cup {"get_auth_url"}

\* The request ended in an error: a fault left the handler, or the answer is
\* not a 200.
ErrorArose == escaped # "" \/ resp.status # 200

\* C5 as claimed: every error arising in one of the five operations is
\* answered with a body {error: message} and a status code, and no fault
\* leaves a handler.
C5_ErrorsAnswered_Claimed ==
    (pc = "done" /\ op \in OperationNames /\ ErrorArose) =>
        /\ escaped = ""
        /\ resp.status # 0
        /\ IsErrorBody(resp.body)

\* activities / athlete-zones relayed the upstream's own JSON error body.
RelayedUpstreamError ==
    /\ op \in FetchOpNames
    /\ response.kind = "response"
    /\ response.json
    /\ resp = Answer(response.status, response.data)

\* C5, amended: every error arising in one of the five operations is caught
\* in the operation and answered with a JSON body and a status code, and no
\* fault leaves a handler; the body is {error: message}, except that
\* activities and athlete-zones answer the upstream's own JSON error body
\* when the upstream sent one.
C5_ErrorsAnswered ==
    (pc = "done" /\ op \in OperationNames /\ ErrorArose) =>
        /\ escaped = ""
        /\ resp.status # 0
        /\ IsErrorBody(resp.body) \/ RelayedUpstreamError
        /\ (op \in TokenOpNames /\ pc = "done" /\ exc.cls \in TransportClasses) =>
              resp.status = 500 /\ IsErrorBody(resp.body)
        /\ (response.kind = "response" /\ response.status = 200 /\ ~response.json) =>
              resp.status = 500 /\ IsErrorBody(resp.body)
        /\ (op \in TokenOpNames /\ req.json # "ok") =>
              resp.status = 500 /\ IsErrorBody(resp.body)

\* Retries exhausted, an unparseable 200, and an absent request body.
C5_Witness ==
    /\ pc = "done"
    /\ op = "get_activities"
    /\ response.kind = "response"
    /\ response.status = 200
    /\ ~response.json
    /\ resp.status = 500
    /\ IsErrorBody(resp.body)

\* The literal values no log record may hold.
Secrets ==
    ({STRAVA_CLIENT_SECRET, Get(req.body, "refresh_token", None)}
       \cup {TokenBody.access_token, TokenBody.refresh_token}) \ {None, ""}

\* C6: in exchange-token and refresh-token no log record holds the literal
\* value of the client secret, an access token or a refresh token, wherever
\* it came from (request body, outbound payload, upstream response of any
\* status), and the body answered to the caller is the upstream body.
C6_NoSecretLogged ==
    op \in TokenOpNames =>
        /\ \A i \in 1..Len(log) : log[i].vals \cap Secrets = {}
        /\ (pc = "done" /\ response.kind = "response" /\ response.status = 200
              /\ response.json) => resp.body = response.data

FetchUrl == IF op = "get_activities" THEN STRAVA_ACTIVITIES_URL ELSE STRAVA_ATHLETE_ZONES_URL

\* The GET failed: a transport fault or other exception of the client, or an
\* HTTP error status.
UpstreamFailed == response.kind = "raise" \/ response.status >= 400

\* C7: activities and athlete-zones with a bearer token issue exactly one
\* GET, never retried; when the upstream fails the answer is the upstream's
\* JSON body and status if it sent a parseable JSON error body, else
\* {error: message} with the upstream status if there is one, else
\* {error: message} with 500.
C7_FetchRelay ==
    (pc = "done" /\ op \in FetchOpNames /\ ~NoBearer) =>
        /\ calls = <<GetCall(FetchUrl, [Authorization |-> "Bearer AT-0"],
                             IF op = "get_activities" THEN req.args ELSE EmptyDict)>>
        /\ waits = 0
        /\ escaped = ""
        /\ UpstreamFailed =>
              IF response.kind = "response"
              THEN IF response.json
                   THEN resp = Answer(response.status, response.data)
                   ELSE resp.status = response.status /\ IsErrorBody(resp.body)
              ELSE resp.status = 500 /\ IsErrorBody(resp.body)

C7_Witness ==
    /\ pc = "done"
    /\ op = "get_activities"
    /\ req.header = <<"Bearer ", "AT-0">>
    /\ req.args # EmptyDict
    /\ response.kind = "response"
    /\ response.status = 401
    /\ resp = Answer(401, MessageBody)
    /\ Len(calls) = 1

\* The URL the claim describes, for the request and configuration at hand.
ClaimedUrl ==
    "https://www.strava.com/oauth/authorize?client_id=" \o STRAVA_CLIENT_ID
      \o "&redirect_uri="
      \o (IF "redirect_uri" \in DOMAIN req.args
          THEN req.args.redirect_uri ELSE EXPECTED_REDIRECT_URI)
      \o "&response_type=code&scope="
      \o (IF "scopes" \in DOMAIN req.args
          THEN req.args.scopes ELSE "read,activity:read_all,profile:read_all")

AuthUrlDone == pc = "done" /\ op = "get_auth_url"

\* 200 with the claimed URL, no upstream call, nothing else of the request
\* state touched.
AuthUrlOk ==
    /\ resp = Answer(200, [url |-> ClaimedUrl])
    /\ calls = <<>>
    /\ escaped = ""

AuthUrlRefused ==
    /\ resp.status = 500
    /\ "url" \notin DOMAIN resp.body
    /\ calls = <<>>
    /\ escaped = ""

\* C8 as claimed: auth-url answers 500 with no URL when the client id is
\* unset, and otherwise 200 with the URL built from (client_id, redirect_uri,
\* scopes) with the defaults filled in and response_type=code.
C8_AuthUrl_Claimed ==
    AuthUrlDone => IF STRAVA_CLIENT_ID = None THEN AuthUrlRefused ELSE AuthUrlOk

\* C8, amended: auth-url answers 500 with no URL when the client id is unset
\* or the empty string, and otherwise 200 with the URL built from (client_id,
\* redirect_uri, scopes): an omitted redirect_uri is the configured default,
\* an omitted scopes is read,activity:read_all,profile:read_all,
\* response_type is code; no upstream call is made.
C8_AuthUrl ==
    AuthUrlDone =>
        /\ IF STRAVA_CLIENT_ID \in {None, ""} THEN AuthUrlRefused ELSE AuthUrlOk
        /\ (STRAVA_CLIENT_ID = "42" /\ req.args = EmptyDict
              /\ EXPECTED_REDIRECT_URI = "http://localhost:3000/exchange_token") =>
              resp.body.url = "https://www.strava.com/oauth/authorize?client_id=42&redirect_uri=http://localhost:3000/exchange_token&response_type=code&scope=read,activity:read_all,profile:read_all"

C8_Witness ==
    /\ AuthUrlDone
    /\ STRAVA_CLIENT_ID = "42"
    /\ req.args = EmptyDict
    /\ EXPECTED_REDIRECT_URI = "https://app.example/callback"
    /\ resp.status = 200

\* The counts and the time of the retrying token request.
C9_Bounds ==
    op \in TokenOpNames =>
        /\ Len(calls) <= max_retries
        /\ waits <= max_retries - 1
        /\ waits = IF pc = "loop" \/ calls = <<>> THEN Len(calls) ELSE Len(calls) - 1
        /\ (pc = "sleep" => LastAnswer.cls \in TransportClasses)
        /\ elapsed <= Len(calls) * POST_TIMEOUT + waits * BACKOFF
        /\ (max_retries = 3 => Len(calls) <= 3 /\ waits <= 2 /\ elapsed <= 32)
        /\ (pc = "done" /\ exc.cls \in TransportClasses) =>
              /\ Len(calls) = max_retries
              /\ waits = max_retries - 1
              /\ resp.status = 500

\* C9: every run of the retrying token request ends, whatever the HTTP client
\* does, after at most max_retries POSTs and max_retries - 1 backoff waits; a
\* wait happens only between a transport-failed attempt and the next one,
\* never after the last; with the default 3 that is at most 3 attempts, 2
\* waits and 32 time units, after which the transport fault is propagated and
\* the token operation answers 500.
C9_Terminates == []C9_Bounds /\ ((pc = "loop") ~> (pc = "done"))

C9_Witness ==
    /\ op = "refresh_token"
    /\ pc = "done"
    /\ exc.cls = "Timeout"
    /\ Len(calls) = 3
    /\ waits = 2
    /\ elapsed = 32
    /\ resp.status = 500

\* C10: the client_id_set flag of debug-info is true exactly when auth-url
\* would answer 200, for every configured client id.
C10_DebugAgrees ==
    (pc = "done" /\ op = "debug_info") =>
        (resp.body.strava_client_id_set = "true"
           <=> AuthUrlAnswer(STRAVA_CLIENT_ID, EXPECTED_REDIRECT_URI, EmptyDict).status = 200)

====
